---- MODULE Spec2Model ----
(***************************************************************************)
(* Model of the two offline scripts of punch-strength-arcade:              *)
(*   wav_to_header.py  - packs audio_files/*.wav into audio_data.h         *)
(*   generate_audio.py - generates the WAV files and lists the files       *)
(*                       that announce a score                             *)
(* Strings are TLA+ strings; text operations (decimal formatting, replace, *)
(* lower, basename) are computed character by character.                   *)
(***************************************************************************)
EXTENDS Integers, Sequences, FiniteSets, TLC

\* ------------------------------------------------------------------ bounds
\* at most this many of the required files are absent, whichever they are
MaxMissing == 1
\* the first so many files of Spread are each present or absent, in every combination
MaxOptional == 5
\* the first so many files of Spread take every size of SizeOptions; the others are absent
MaxSized == 3
\* at most this many vocabulary items fail in the generation pipeline
MaxFailures == 2
\* test_score_announcement is called with every score from 0 to this
MaxScore == 1100

\* --------------------------------------------------------- text primitives
Digits == "0123456789"
UpperCase == "ABCDEFGHIJKLMNOPQRSTUVWXYZ"
LowerCase == "abcdefghijklmnopqrstuvwxyz"

CharAt(s, i) == SubSeq(s, i, i)

Min(a, b) == IF a < b THEN a ELSE b

\* f"{i}" for a non-negative integer: its decimal digits
RECURSIVE IntToStr(_)
IntToStr(n) ==
    IF n < 10 THEN CharAt(Digits, n + 1)
    ELSE IntToStr(n \div 10) \o CharAt(Digits, (n % 10) + 1)

\* str.startswith at position i (1-based)
MatchAt(s, i, old) ==
    /\ i + Len(old) - 1 <= Len(s)
    /\ SubSeq(s, i, i + Len(old) - 1) = old

\* str.replace(old, new): every non-overlapping occurrence, left to right
RECURSIVE ReplaceFrom(_, _, _, _)
ReplaceFrom(s, i, old, new) ==
    IF i > Len(s) THEN ""
    ELSE IF MatchAt(s, i, old) THEN new \o ReplaceFrom(s, i + Len(old), old, new)
    ELSE CharAt(s, i) \o ReplaceFrom(s, i + 1, old, new)

Replace(s, old, new) == ReplaceFrom(s, 1, old, new)

\* str.lower() of one character (ASCII letters)
LowerChar(c) ==
    IF \E k \in 1..26 : CharAt(UpperCase, k) = c
    THEN CharAt(LowerCase, CHOOSE k \in 1..26 : CharAt(UpperCase, k) = c)
    ELSE c

RECURSIVE LowerFrom(_, _)
LowerFrom(s, i) ==
    IF i > Len(s) THEN "" ELSE LowerChar(CharAt(s, i)) \o LowerFrom(s, i + 1)

Lower(s) == LowerFrom(s, 1)

\* os.path.join(dir, name)
PathJoin(dir, name) == dir \o "/" \o name

\* os.path.basename(path): what follows the last "/"
RECURSIVE BasenameFrom(_, _)
BasenameFrom(p, i) ==
    IF i = 0 THEN p
    ELSE IF CharAt(p, i) = "/" THEN SubSeq(p, i + 1, Len(p))
    ELSE BasenameFrom(p, i - 1)

Basename(p) == BasenameFrom(p, Len(p))

\* range(lo, hi, step) as a sequence
Range(lo, hi, step) ==
    [k \in 1..((hi - lo + step - 1) \div step) |-> lo + (k - 1) * step]

WavNames(nums) == [k \in 1..Len(nums) |-> IntToStr(nums[k]) \o ".wav"]

\* ------------------------------------------------------ wav_to_header.py
AUDIO_DIR == "audio_files"
OUTPUT_FILE == "audio_data.h"

REQUIRED_FILES ==
    WavNames(Range(1, 10, 1)) \o WavNames(Range(10, 20, 1))
    \o WavNames(Range(20, 100, 10)) \o WavNames(Range(100, 1000, 100))
    \o <<"and.wav">>

WAV_HEADER == 44
FLASH_SIZE == 1500 * 1024

VARIABLES
    \* generate_audio.py, generate_all_files()
    gpc,             \* which of the five parts of generate_all_files runs
    gi,              \* position of that part's loop in its dictionary
    success_count,
    attempts,        \* the calls of generate_audio_file so far: item and outcome
    returned,        \* what generate_all_files returned
    \* generate_audio.py, test_score_announcement()
    score, spc,
    played,          \* the file names printed under "Files to play:"
    \* wav_to_header.py
    dirExists,       \* os.path.exists(AUDIO_DIR)
    fs,              \* audio_files/: file name -> size in bytes, Absent if not there
    outBefore,       \* audio_data.h as it was when the run started
    outFile,         \* audio_data.h on disk
    pc,              \* position of main()
    existing_files, missing_files, total_size,
    idx,             \* position of the conversion loop in existing_files
    response,        \* what input() returned
    stdout,          \* the messages printed
    exitCode         \* process exit status, Running until the process ends

packVars == <<dirExists, fs, outBefore, outFile, pc, existing_files, missing_files,
              total_size, idx, response, stdout, exitCode>>
genVars == <<gpc, gi, success_count, attempts, returned>>
scoreVars == <<score, spc, played>>
vars == <<packVars, genVars, scoreVars>>

Absent == -1
Running == -1
NoAnswer == "<none>"

\* ---- the files: a file's bytes are a fixed function of its name and the offset
FileIndex(name) == CHOOSE k \in 1..Len(REQUIRED_FILES) : REQUIRED_FILES[k] = name

FileByte(name, o) == (FileIndex(name) * 29 + o * 5) % 256

\* f.read(): the whole file, as a view (file, first offset, length) of its bytes
ReadFile(filepath) ==
    [file |-> Basename(filepath), off |-> 0, len |-> fs[Basename(filepath)]]

\* data[a:] for a >= 0: Python clamps the start to the length
SliceFrom(data, a) ==
    [file |-> data.file, off |-> data.off + Min(a, data.len),
     len |-> data.len - Min(a, data.len)]

\* data[j], 0-based
ByteAt(data, j) == FileByte(data.file, data.off + j)

\* len(range(0, n, 16)): the rows written for n bytes
RowCount(n) == (n + 15) \div 16

convert_wav_to_array(filepath, var_name) ==
    LET data == ReadFile(filepath)
        audio_data == SliceFrom(data, WAV_HEADER)
    IN  [kind |-> "array", comment |-> Basename(filepath), var |-> var_name,
         data |-> audio_data, rows |-> RowCount(audio_data.len),
         length |-> audio_data.len]

get_var_name(filename) ==
    LET name == Replace(filename, ".wav", "")
    IN  IF name = "and" THEN "audio_and" ELSE "audio_" \o name

\* create_lookup_table writing the configured total as audioFileCount
create_lookup_table_total(file_list) ==
    [kind |-> "lookup",
     entries |-> [k \in 1..Len(file_list) |->
                    [name |-> file_list[k], data |-> get_var_name(file_list[k]),
                     length |-> get_var_name(file_list[k]) \o "_len"]],
     count |-> Len(REQUIRED_FILES)]

create_lookup_table(file_list) ==
    [kind |-> "lookup",
     entries |-> [k \in 1..Len(file_list) |->
                    [name |-> file_list[k], data |-> get_var_name(file_list[k]),
                     length |-> get_var_name(file_list[k]) \o "_len"]],
     count |-> Len(file_list)]

\* the loop of lines 99-110 putting each found file first in existing_files
RECURSIVE ScanFiles_prepend(_, _)
ScanFiles_prepend(i, acc) ==
    IF i > Len(REQUIRED_FILES) THEN acc
    ELSE LET filename == REQUIRED_FILES[i]
         IN  IF fs[filename] # Absent
             THEN ScanFiles_prepend(i + 1,
                        [existing |-> <<filename>> \o acc.existing,
                         missing |-> acc.missing,
                         total |-> acc.total + (fs[filename] - WAV_HEADER),
                         out |-> Append(acc.out, [msg |-> "found", file |-> filename,
                                                  bytes |-> fs[filename] - WAV_HEADER])])
             ELSE ScanFiles_prepend(i + 1,
                        [existing |-> acc.existing,
                         missing |-> Append(acc.missing, filename),
                         total |-> acc.total,
                         out |-> Append(acc.out, [msg |-> "MISSING!", file |-> filename,
                                                  bytes |-> 0])])

\* lines 99-110: the loop over REQUIRED_FILES, from position i on
RECURSIVE ScanFiles(_, _)
ScanFiles(i, acc) ==
    IF i > Len(REQUIRED_FILES) THEN acc
    ELSE LET filename == REQUIRED_FILES[i]
             filepath == PathJoin(AUDIO_DIR, filename)
         IN  IF fs[Basename(filepath)] # Absent
             THEN LET size == fs[Basename(filepath)]
                      data_size == size - WAV_HEADER
                  IN  ScanFiles(i + 1,
                        [existing |-> Append(acc.existing, filename),
                         missing |-> acc.missing,
                         total |-> acc.total + data_size,
                         out |-> Append(acc.out, [msg |-> "found", file |-> filename,
                                                  bytes |-> data_size])])
             ELSE ScanFiles(i + 1,
                        [existing |-> acc.existing,
                         missing |-> Append(acc.missing, filename),
                         total |-> acc.total,
                         out |-> Append(acc.out, [msg |-> "MISSING!", file |-> filename,
                                                  bytes |-> 0])])

Say(text) == [msg |-> text, file |-> "", bytes |-> 0]

\* total_size > FLASH_SIZE * 0.6; the product is the double 921600.0 exactly
OverBudget(total) == 10 * total > 6 * FLASH_SIZE

\* a prompt that goes on unless the answer is n
Declined_unless_n(r) == Lower(r) = "n"

\* response.lower() != 'y'
Declined(r) == Lower(r) # "y"

Responses == {"y", "Y", "n", "N", "", "yes", "yY"}

\* ---- the directory snapshots a run starts from
\* the size of a file that is present in FewMissing and OptionalMissing
DefaultSize == 1044
SizeOptions == {Absent, 43, 44, 45, 921644, 921645}

\* the k-th file of a spread over REQUIRED_FILES: the last, then every 11th
Spread(k) ==
    REQUIRED_FILES[(((k - 1) * 11 + Len(REQUIRED_FILES) - 1) % Len(REQUIRED_FILES)) + 1]

AllFiles == {REQUIRED_FILES[k] : k \in 1..Len(REQUIRED_FILES)}

\* the subsets of AllFiles of at most n files
RECURSIVE SubsetsUpTo(_)
SubsetsUpTo(n) ==
    IF n = 0 THEN {{}}
    ELSE SubsetsUpTo(n - 1) \cup
         {S \cup {f} : S \in SubsetsUpTo(n - 1), f \in AllFiles}

FewMissing ==
    {[f \in AllFiles |-> IF f \in M THEN Absent ELSE DefaultSize] :
        M \in SubsetsUpTo(MaxMissing)}

OptionalMissing ==
    {[f \in AllFiles |-> IF f \in M THEN Absent ELSE DefaultSize] :
        M \in SUBSET {Spread(k) : k \in 1..MaxOptional}}

SizedFiles ==
    {[f \in AllFiles |-> IF \E k \in 1..MaxSized : Spread(k) = f
                          THEN c[CHOOSE k \in 1..MaxSized : Spread(k) = f]
                          ELSE Absent] :
        c \in [1..MaxSized -> SizeOptions]}

NoOutput == [exists |-> FALSE, items |-> <<>>]

\* an audio_data.h left by an earlier, complete run
OldOutput ==
    [exists |-> TRUE,
     items |-> << [kind |-> "info", files |-> 0, total |-> 0], [kind |-> "guard"],
                  create_lookup_table(<<>>), [kind |-> "endif"] >>]

GenIdle ==
    /\ gpc = "idle" /\ gi = 0 /\ success_count = 0
    /\ attempts = <<>> /\ returned = <<>>

ScoreIdle == score = 0 /\ spc = "idle" /\ played = <<>>

PackInit ==
    /\ dirExists \in BOOLEAN
    /\ fs \in IF dirExists THEN FewMissing \cup OptionalMissing \cup SizedFiles
               ELSE {[f \in AllFiles |-> Absent]}
    /\ outBefore \in {NoOutput, OldOutput}
    /\ outFile = outBefore
    /\ pc = "check_dir"
    /\ existing_files = <<>> /\ missing_files = <<>> /\ total_size = 0
    /\ idx = 0 /\ response = NoAnswer /\ stdout = <<>> /\ exitCode = Running

Init == PackInit /\ GenIdle /\ ScoreIdle

Write(item) == outFile' = [exists |-> TRUE, items |-> Append(outFile.items, item)]

\* lines 86-90
CheckDir ==
    /\ pc = "check_dir"
    /\ IF ~dirExists
       THEN /\ stdout' = Append(stdout, Say("ERROR: Directory not found!"))
            /\ exitCode' = 1
            /\ pc' = "exit"
       ELSE /\ pc' = "check_files"
            /\ UNCHANGED <<stdout, exitCode>>
    /\ UNCHANGED <<dirExists, fs, outBefore, outFile, existing_files, missing_files,
                   total_size, idx, response, genVars, scoreVars>>

\* lines 92-118
CheckFiles ==
    /\ pc = "check_files"
    /\ LET r == ScanFiles(1, [existing |-> <<>>, missing |-> <<>>, total |-> 0,
                              out |-> stdout])
       IN  /\ existing_files' = r.existing
           /\ missing_files' = r.missing
           /\ total_size' = r.total
           /\ stdout' = IF r.missing # <<>>
                        THEN Append(r.out, [msg |-> "WARNING: files missing!",
                                            file |-> "", bytes |-> Len(r.missing)])
                        ELSE r.out
    /\ pc' = "check_flash"
    /\ UNCHANGED <<dirExists, fs, outBefore, outFile, idx, response, exitCode,
                   genVars, scoreVars>>

\* lines 120-128
CheckFlash ==
    /\ pc = "check_flash"
    /\ stdout' = IF OverBudget(total_size)
                 THEN Append(stdout, Say("WARNING: Audio data is large"))
                 ELSE stdout
    /\ pc' = "confirm"
    /\ UNCHANGED <<dirExists, fs, outBefore, outFile, existing_files, missing_files,
                   total_size, idx, response, exitCode, genVars, scoreVars>>

\* lines 130-137
Confirm ==
    /\ pc = "confirm"
    /\ \E r \in Responses :
        /\ response' = r
        /\ IF Declined(r)
           THEN /\ stdout' = Append(stdout, Say("Cancelled."))
                /\ exitCode' = 0
                /\ pc' = "exit"
           ELSE /\ pc' = "open"
                /\ UNCHANGED <<stdout, exitCode>>
    /\ UNCHANGED <<dirExists, fs, outBefore, outFile, existing_files, missing_files,
                   total_size, idx, genVars, scoreVars>>

\* line 139: open(OUTPUT_FILE, 'w') creates the file or truncates it
OpenOutput ==
    /\ pc = "open"
    /\ outFile' = [exists |-> TRUE, items |-> <<>>]
    /\ pc' = "write_header"
    /\ UNCHANGED <<dirExists, fs, outBefore, existing_files, missing_files,
                   total_size, idx, response, stdout, exitCode, genVars, scoreVars>>

\* lines 141-147
WriteHeader ==
    /\ pc = "write_header"
    /\ outFile' = [exists |-> TRUE,
                   items |-> outFile.items \o
                     << [kind |-> "info", files |-> Len(existing_files),
                         total |-> total_size],
                        [kind |-> "guard"] >>]
    /\ idx' = 1
    /\ pc' = "convert"
    /\ UNCHANGED <<dirExists, fs, outBefore, existing_files, missing_files,
                   total_size, response, stdout, exitCode, genVars, scoreVars>>

\* lines 150-159: one pass of the loop over existing_files
ConvertFile ==
    /\ pc = "convert"
    /\ idx <= Len(existing_files)
    /\ LET filename == existing_files[idx]
           filepath == PathJoin(AUDIO_DIR, filename)
           var_name == get_var_name(filename)
       IN  Write(convert_wav_to_array(filepath, var_name))
    /\ idx' = idx + 1
    /\ UNCHANGED <<dirExists, fs, outBefore, pc, existing_files, missing_files,
                   total_size, response, stdout, exitCode, genVars, scoreVars>>

\* lines 161-164
WriteLookup ==
    /\ pc = "convert"
    /\ idx > Len(existing_files)
    /\ Write(create_lookup_table(existing_files))
    /\ pc' = "close"
    /\ UNCHANGED <<dirExists, fs, outBefore, existing_files, missing_files,
                   total_size, idx, response, stdout, exitCode, genVars, scoreVars>>

\* line 167 and the end of the with block
CloseGuard ==
    /\ pc = "close"
    /\ Write([kind |-> "endif"])
    /\ pc' = "results"
    /\ UNCHANGED <<dirExists, fs, outBefore, existing_files, missing_files,
                   total_size, idx, response, stdout, exitCode, genVars, scoreVars>>

\* lines 169-187, then main() returns and the process ends with status 0
ShowResults ==
    /\ pc = "results"
    /\ stdout' = Append(stdout, Say("Success!"))
    /\ exitCode' = 0
    /\ pc' = "exit"
    /\ UNCHANGED <<dirExists, fs, outBefore, outFile, existing_files, missing_files,
                   total_size, idx, response, genVars, scoreVars>>

\* lines 189-194: KeyboardInterrupt anywhere in main(); an open output file is
\* closed by the with block with what was written so far
Interrupt ==
    /\ pc # "exit"
    /\ stdout' = Append(stdout, Say("Cancelled by user"))
    /\ exitCode' = 1
    /\ pc' = "exit"
    /\ UNCHANGED <<dirExists, fs, outBefore, outFile, existing_files, missing_files,
                   total_size, idx, response, genVars, scoreVars>>

\* ------------------------------------------------------ generate_audio.py
\* the vocabulary dictionaries, in insertion order (the order .items() yields)
NUMBERS_1_9 ==
    << <<1, "one">>, <<2, "two">>, <<3, "three">>, <<4, "four">>, <<5, "five">>,
       <<6, "six">>, <<7, "seven">>, <<8, "eight">>, <<9, "nine">> >>

NUMBERS_10_19 ==
    << <<10, "ten">>, <<11, "eleven">>, <<12, "twelve">>, <<13, "thirteen">>,
       <<14, "fourteen">>, <<15, "fifteen">>, <<16, "sixteen">>,
       <<17, "seventeen">>, <<18, "eighteen">>, <<19, "nineteen">> >>

NUMBERS_TENS ==
    << <<20, "twenty">>, <<30, "thirty">>, <<40, "forty">>, <<50, "fifty">>,
       <<60, "sixty">>, <<70, "seventy">>, <<80, "eighty">>, <<90, "ninety">> >>

NUMBERS_HUNDREDS ==
    << <<100, "one hundred">>, <<200, "two hundred">>, <<300, "three hundred">>,
       <<400, "four hundred">>, <<500, "five hundred">>, <<600, "six hundred">>,
       <<700, "seven hundred">>, <<800, "eight hundred">>, <<900, "nine hundred">> >>

\* line 126
total_files == 35

\* generate_tts and convert_to_wav return True or False (every exception of
\* the external call is caught); the outcome is the environment's choice
Outcomes == {"ok", "failed"}

Failed(a) == a.tts = "failed" \/ a.conv = "failed"

FailuresSoFar == Cardinality({k \in 1..Len(attempts) : Failed(attempts[k])})

\* generate_audio_file not looking at what convert_to_wav returned
generate_audio_file_unchecked(number, text, tts, conv) ==
    LET wav_path == PathJoin("audio_files", number \o ".wav")
    IN  [call |-> [wav |-> wav_path, text |-> text, tts |-> tts,
                   conv |-> IF tts = "ok" THEN conv ELSE "not called"],
         result |-> tts = "ok"]

\* generate_audio_file(number, text) with the two external outcomes: the call
\* record and the value returned
generate_audio_file(number, text, tts, conv) ==
    LET wav_path == PathJoin("audio_files", number \o ".wav")
    IN  IF tts # "ok"
        THEN [call |-> [wav |-> wav_path, text |-> text, tts |-> tts,
                        conv |-> "not called"], result |-> FALSE]
        ELSE IF conv # "ok"
        THEN [call |-> [wav |-> wav_path, text |-> text, tts |-> tts,
                        conv |-> conv], result |-> FALSE]
        ELSE [call |-> [wav |-> wav_path, text |-> text, tts |-> tts,
                        conv |-> conv], result |-> TRUE]

\* one pass of "if generate_audio_file(num, text): success_count += 1"
GenerateOne(number, text) ==
    \E tts \in Outcomes, conv \in Outcomes :
        LET r == generate_audio_file(number, text, tts, conv)
        IN  /\ ~Failed(r.call) \/ FailuresSoFar < MaxFailures
            /\ attempts' = Append(attempts, r.call)
            /\ success_count' = IF r.result THEN success_count + 1
                                 ELSE success_count

\* one pass of a loop "for num, text in d.items()", then the next part
LoopOver(part, d, nextPart) ==
    /\ gpc = part
    /\ IF gi <= Len(d)
       THEN /\ GenerateOne(IntToStr(d[gi][1]), d[gi][2])
            /\ gi' = gi + 1
            /\ gpc' = gpc
       ELSE /\ gi' = 1
            /\ gpc' = nextPart
            /\ UNCHANGED <<attempts, success_count>>
    /\ UNCHANGED <<returned, packVars, scoreVars>>

\* lines 129-136
Generate1to9 == LoopOver("1-9", NUMBERS_1_9, "10-19")
\* lines 138-145
Generate10to19 == LoopOver("10-19", NUMBERS_10_19, "tens")
\* lines 147-154
GenerateTens == LoopOver("tens", NUMBERS_TENS, "hundreds")
\* lines 156-163
GenerateHundreds == LoopOver("hundreds", NUMBERS_HUNDREDS, "and")

\* lines 165-171
GenerateAnd ==
    /\ gpc = "and"
    /\ GenerateOne("and", "and")
    /\ gpc' = "return"
    /\ UNCHANGED <<gi, returned, packVars, scoreVars>>

\* line 173
GenerateReturn ==
    /\ gpc = "return"
    /\ returned' = <<success_count, total_files>>
    /\ gpc' = "done"
    /\ UNCHANGED <<gi, success_count, attempts, packVars, scoreVars>>

PackIdle ==
    /\ dirExists = FALSE /\ fs = [f \in AllFiles |-> Absent]
    /\ outBefore = NoOutput /\ outFile = NoOutput /\ pc = "idle"
    /\ existing_files = <<>> /\ missing_files = <<>> /\ total_size = 0
    /\ idx = 0 /\ response = NoAnswer /\ stdout = <<>> /\ exitCode = Running

\* lines 126-127
GenInit ==
    /\ gpc = "1-9" /\ gi = 1 /\ success_count = 0
    /\ attempts = <<>> /\ returned = <<>>
    /\ PackIdle /\ ScoreIdle

GenNext ==
    \/ Generate1to9 \/ Generate10to19 \/ GenerateTens \/ GenerateHundreds
    \/ GenerateAnd \/ GenerateReturn

SpecGen == GenInit /\ [][GenNext]_vars

\* test_score_announcement with tens = remainder // 10
test_score_announcement_tens(sc) ==
    LET hundreds == (sc \div 100) * 100
        remainder == sc % 100
        tens == remainder \div 10
        ones == remainder % 10
    IN  (IF hundreds > 0 THEN <<IntToStr(hundreds) \o ".wav">> ELSE <<>>)
        \o (IF remainder > 0 THEN <<"and.wav">> ELSE <<>>)
        \o (IF remainder >= 20
            THEN <<IntToStr(tens) \o ".wav">>
                 \o (IF ones > 0 THEN <<IntToStr(ones) \o ".wav">> ELSE <<>>)
            ELSE IF remainder >= 10 THEN <<IntToStr(remainder) \o ".wav">>
            ELSE IF ones > 0 THEN <<IntToStr(ones) \o ".wav">>
            ELSE <<>>)

\* ---- test_score_announcement(score): the files printed, in order
test_score_announcement(sc) ==
    LET hundreds == (sc \div 100) * 100
        remainder == sc % 100
        tens == (remainder \div 10) * 10
        ones == remainder % 10
    IN  (IF hundreds > 0 THEN <<IntToStr(hundreds) \o ".wav">> ELSE <<>>)
        \o (IF remainder > 0 THEN <<"and.wav">> ELSE <<>>)
        \o (IF remainder >= 20
            THEN <<IntToStr(tens) \o ".wav">>
                 \o (IF ones > 0 THEN <<IntToStr(ones) \o ".wav">> ELSE <<>>)
            ELSE IF remainder >= 10 THEN <<IntToStr(remainder) \o ".wav">>
            ELSE IF ones > 0 THEN <<IntToStr(ones) \o ".wav">>
            ELSE <<>>)

ScoreInit ==
    /\ score \in 0..MaxScore /\ spc = "call" /\ played = <<>>
    /\ PackIdle /\ GenIdle

Announce ==
    /\ spc = "call"
    /\ played' = test_score_announcement(score)
    /\ spc' = "done"
    /\ UNCHANGED <<score, packVars, genVars>>

ScoreNext == Announce

SpecScore == ScoreInit /\ [][ScoreNext]_vars

Next ==
    \/ CheckDir \/ CheckFiles \/ CheckFlash \/ Confirm \/ OpenOutput
    \/ WriteHeader \/ ConvertFile \/ WriteLookup \/ CloseGuard \/ ShowResults
    \/ Interrupt

Spec == Init /\ [][Next]_vars

\* ------------------------------------------------------------- properties
IsArray(it) == it.kind = "array"
IsLookup(it) == it.kind = "lookup"
IsInfo(it) == it.kind = "info"

Arrays == SelectSeq(outFile.items, IsArray)
Lookups == SelectSeq(outFile.items, IsLookup)
Infos == SelectSeq(outFile.items, IsInfo)

Present == {f \in AllFiles : fs[f] # Absent}
Missing == {f \in AllFiles : fs[f] = Absent}

SaidYes == response \in {"y", "Y"}

\* the run was confirmed and ran to its end
Completed == pc = "exit" /\ exitCode = 0 /\ SaidYes

OutputComplete ==
    /\ outFile.exists
    /\ outFile.items # <<>>
    /\ outFile.items[Len(outFile.items)].kind = "endif"

Printed(text) == \E k \in DOMAIN stdout : stdout[k].msg = text

RECURSIVE SumLengths(_)
SumLengths(arrs) ==
    IF arrs = <<>> THEN 0 ELSE arrs[1].length + SumLengths(Tail(arrs))

\* the bytes of a file after its 44-byte header
PayloadSize(f) == IF fs[f] > 44 THEN fs[f] - 44 ELSE 0

RECURSIVE SumPayload(_)
SumPayload(F) ==
    IF F = {} THEN 0
    ELSE LET f == CHOOSE g \in F : TRUE IN PayloadSize(f) + SumPayload(F \ {f})

\* offsets of an n-byte payload that are looked at: the first 20 and the last
Probes(n) == {j \in 0..19 : j < n} \cup {j \in {n - 1} : j >= 0}

\* seq keeps the order of REQUIRED_FILES: each element comes later in it than
\* the one before, hence than all before
InVocabularyOrder(seq) ==
    \A a \in 1..(Len(seq) - 1) : FileIndex(seq[a]) < FileIndex(seq[a + 1])

\* C1: every array written to audio_data.h declares a length of the file's
\* size minus 44 and holds exactly the file's bytes from offset 44 on, in order.
C1_LengthIsSizeMinus44 ==
    \A k \in DOMAIN Arrays :
        LET a == Arrays[k]
            size == fs[a.comment]
        IN  /\ a.length = size - 44
            /\ a.data.len = size - 44
            /\ \A j \in Probes(size - 44) : ByteAt(a.data, j) = FileByte(a.comment, 44 + j)

\* what C2 says of a confirmed run that ended, for a vocabulary of n files: one
\* table entry per present file, none for a missing file, audioFileCount =
\* n - |M| = the entries written, and one MISSING! line per missing file
TableMatchesPresentFiles(n) ==
    Completed =>
        /\ Len(Lookups) = 1
        /\ LET t == Lookups[1]
           IN  /\ \A f \in Present :
                     Cardinality({k \in DOMAIN t.entries : t.entries[k].name = f}) = 1
               /\ \A f \in Missing :
                     /\ \A k \in DOMAIN t.entries : t.entries[k].name # f
                     /\ \E k \in DOMAIN stdout :
                            stdout[k].msg = "MISSING!" /\ stdout[k].file = f
               /\ t.count = n - Cardinality(Missing)
               /\ t.count = Len(t.entries)

\* a confirmed run is never stuck before its end: it stands at one of the steps
\* after the prompt, whose guards are these
ConfirmedRunGoesOn ==
    (SaidYes /\ pc # "exit") =>
        \/ pc \in {"open", "write_header", "close", "results"}
        \/ pc = "convert" /\ idx \in 1..(Len(existing_files) + 1)

C3_CanonicalOrder ==
    /\ InVocabularyOrder([k \in DOMAIN Arrays |-> Arrays[k].comment])
    /\ \A n \in DOMAIN Lookups :
          InVocabularyOrder([k \in DOMAIN Lookups[n].entries |->
                               Lookups[n].entries[k].name])
    /\ InVocabularyOrder(existing_files)

C3_Witness ==
    /\ Completed
    /\ Cardinality(Missing) >= 2
    /\ Len(Lookups[1].entries) >= 30
    /\ Len(Arrays) >= 30

\* C4: a present file shorter than 44 bytes gets a malformed-input error and
\* no empty array.
C4_ShortFileRejected ==
    \A f \in Present :
        fs[f] < 44 =>
            /\ \A k \in DOMAIN Arrays : Arrays[k].comment = f => Arrays[k].length # 0
            /\ Completed =>
                  \E k \in DOMAIN stdout :
                      stdout[k].file = f /\ stdout[k].msg \notin {"found", "MISSING!"}

\* C5: audio_data.h changes only after the answer y or Y; any other answer
\* ends the run with status 0, a missing audio directory with status 1 before
\* the prompt, and both leave audio_data.h as it was.
C5_WriteOnlyAfterYes ==
    [][ /\ outFile' # outFile => SaidYes
        /\ (pc' = "exit" /\ response' \notin {"y", "Y", NoAnswer}) =>
              (exitCode' = 0 /\ outFile' = outBefore')
        /\ (~dirExists /\ pc' = "exit") =>
              (exitCode' = 1 /\ response' = NoAnswer /\ outFile' = outBefore')
      ]_vars

C5_Witness ==
    /\ pc = "exit" /\ response = "n" /\ exitCode = 0
    /\ outBefore = OldOutput /\ outFile = OldOutput
    /\ Present # {}

\* C6: when the process has ended, audio_data.h is as it was before the run or
\* is a complete header ending with #endif.
C6_NoPartialOutput ==
    pc = "exit" => (outFile = outBefore \/ OutputComplete)

\* C7: the capacity warning is printed exactly when the payload of the present
\* files exceeds 921600 bytes, and the run then goes on to the prompt.
C7_WarningIffOverBudget ==
    [][ (pc = "check_flash" /\ pc' # "exit") =>
            /\ pc' = "confirm"
            /\ Printed("WARNING: Audio data is large")' <=> (SumPayload(Present) > 921600)
      ]_vars

\* C9: in a confirmed run that ended, the total of the header comment equals
\* the sum of the lengths declared for the arrays.
C9_TotalIsSumOfLengths ==
    Completed => (Len(Infos) = 1 /\ Infos[1].total = SumLengths(Arrays))

\* ---- generate_all_files
BothSucceeded(a) == a.tts = "ok" /\ a.conv = "ok"

\* the k-th call of generate_audio_file is for the k-th file of the order
\* 1-9, 10-19, 20-90, 100-900, and; success_count counts the calls so far in
\* which both steps succeeded
AttemptsInOrder ==
    /\ Len(attempts) <= Len(REQUIRED_FILES)
    /\ success_count = Cardinality({k \in DOMAIN attempts : BothSucceeded(attempts[k])})
    /\ \A k \in DOMAIN attempts : attempts[k].wav = "audio_files/" \o REQUIRED_FILES[k]

\* generate_all_files returns after n calls, with the count of the calls in
\* which both steps succeeded
ReturnsAfter(n) ==
    gpc = "done" =>
        /\ Len(attempts) = n
        /\ returned[1] = Cardinality({k \in DOMAIN attempts : BothSucceeded(attempts[k])})

DigitValue(c) == CHOOSE d \in 0..9 : CharAt(Digits, d + 1) = c

RECURSIVE StrToInt(_)
StrToInt(t) ==
    IF t = "" THEN 0
    ELSE 10 * StrToInt(SubSeq(t, 1, Len(t) - 1)) + DigitValue(CharAt(t, Len(t)))

\* the number a file name stands for, and.wav counting as 0
FileValue(f) == IF f = "and.wav" THEN 0 ELSE StrToInt(SubSeq(f, 1, Len(f) - 4))

\* 1 hundreds, 2 and, 3 tens and teens, 4 ones
FileRank(f) ==
    IF f = "and.wav" THEN 2
    ELSE IF FileValue(f) >= 100 THEN 1
    ELSE IF FileValue(f) >= 10 THEN 3
    ELSE 4

RECURSIVE SumValues(_)
SumValues(fl) == IF fl = <<>> THEN 0 ELSE FileValue(Head(fl)) + SumValues(Tail(fl))

\* what C10 says of the files listed for a score, for a vocabulary of n files
AnnouncementFrom(n) ==
    (spc = "done" /\ score \in 1..999) =>
        /\ Cardinality(AllFiles) = n
        /\ \A k \in DOMAIN played : played[k] \in AllFiles
        /\ \A k \in 1..(Len(played) - 1) : FileRank(played[k]) < FileRank(played[k + 1])
        /\ SumValues(played) = score

====
